---- MODULE Spec2Model ----
(***************************************************************************)
(* A model of git_activity.py: the calendar window (last_n_weeks), the     *)
(* aggregation of commit counts into GADs (aggregate_gads), the quartiles, *)
(* the colouring and rendering of a window, the two orientations, the      *)
(* table layout and the run of main().                                     *)
(*                                                                         *)
(* A date is a record [year, month, day].  A string is a sequence of       *)
(* character codes; an ANSI colour escape fg(c) is the single code         *)
(* EscBase + c (display width 0).                                          *)
(***************************************************************************)
EXTENDS Integers, Sequences, FiniteSets, Bags, TLC

VARIABLES
    \* last_n_weeks called on its own
    date, num_weeks, weeks, cal_pc,
    \* calculate_quartiles called on its own
    list_of_numbers, quartile_triple, stat_pc,
    \* count_commits_for called on its own: what git log answered, the result
    commit_stamps, commits_counted_by_date, count_pc,
    \* the environment of a run of main(): the day, the terminal width, the
    \* command line, the configuration file, the iteration order of the dicts
    \* and sets (the hash order of their keys) and what git log answers
    TODAY, MAX_WIDTH, argv, cfg, dict_order, git_log,
    \* the run of main(): its position, its locals and what it did
    pc, args, repositories, authors, time_period, fetched, calls,
    gads_by_author, gads_by_date, author_i, repo_i, rendered, stdout

calVars == <<date, num_weeks, weeks, cal_pc>>

statVars == <<list_of_numbers, quartile_triple, stat_pc>>

countVars == <<commit_stamps, commits_counted_by_date, count_pc>>

fnVars == <<calVars, statVars, countVars>>

envVars == <<TODAY, MAX_WIDTH, argv, cfg, dict_order, git_log>>

runVars == <<pc, args, repositories, authors, time_period, fetched, calls,
             gads_by_author, gads_by_date, author_i, repo_i, rendered, stdout>>

vars == <<calVars, statVars, countVars, envVars, runVars>>

----------------------------------------------------------------------------
(* Bounds of the model *)

\* the largest num_weeks last_n_weeks is called with
MaxWeeks == 6

\* the years the reference date is drawn from: a common year and a leap year
RefYears == 2023..2024

\* the values of num_weeks tried, with the non-positive ones
NumWeeksInputs == -2..MaxWeeks

\* the largest --duration and --width given on the command line of a run
MaxDuration == 2

MaxWidthArg == 2

\* the most commits git log reports for one day, and the days (ending today)
\* it reports commits for
\* the longest list calculate_quartiles is called with, and its largest number
MaxLen == 5

MaxNumber == 3

\* the longest window rendered in both orientations
MaxRenderWeeks == 4

\* the most commits of a day and the days with commits in the end-to-end runs
MaxCommits == 4

LogDays == 2

\* the most authors laid out in the table, and the widest --width given
MaxTableAuthors == 5

MaxTableWidth == 3

\* the most commits git log lists in one answer, and the days they fall on
MaxStamps == 4

StampDays == 2

\* how many repositories (0: the default one) and authors the configuration
\* file of a run names
RunRepoCounts == {0, 2}

RunAuthorCounts == 0..2

----------------------------------------------------------------------------
(* Python helpers *)

Min(a, b) == IF a < b THEN a ELSE b

Max(a, b) == IF a > b THEN a ELSE b

\* a slice bound as Python clamps it: negative counts from the end
PyIndex(i, n) == IF i < 0 THEN Max(i + n, 0) ELSE Min(i, n)

\* s[lo:hi] of a Python list
PySlice(s, lo, hi) == SubSeq(s, PyIndex(lo, Len(s)) + 1, PyIndex(hi, Len(s)))

\* s[lo:] of a Python list
PySliceFrom(s, lo) == SubSeq(s, PyIndex(lo, Len(s)) + 1, Len(s))

\* [day for week in weeks for day in week], for weeks of 7 days
Flatten(ws) == [k \in 1..(7 * Len(ws)) |-> ws[((k - 1) \div 7) + 1][((k - 1) % 7) + 1]]

\* x in lst
InList(x, lst) == \E i \in 1..Len(lst) : lst[i] = x

----------------------------------------------------------------------------
(* datetime.date and calendar, as month_dates and previous_month use them *)

Date(y, m, d) == [year |-> y, month |-> m, day |-> d]

IsLeap(y) == (y % 4 = 0) /\ ((y % 100 # 0) \/ (y % 400 = 0))

DaysInMonth(y, m) ==
    IF m = 2 THEN (IF IsLeap(y) THEN 29 ELSE 28)
    ELSE IF m \in {4, 6, 9, 11} THEN 30 ELSE 31

RECURSIVE DaysBeforeMonth(_, _)
DaysBeforeMonth(y, m) ==
    IF m = 1 THEN 0 ELSE DaysBeforeMonth(y, m - 1) + DaysInMonth(y, m - 1)

\* date.toordinal(): 1 for 0001-01-01
ToOrdinal(d) ==
    LET y == d.year - 1
    IN  y * 365 + (y \div 4) - (y \div 100) + (y \div 400)
        + DaysBeforeMonth(d.year, d.month) + d.day

\* date.weekday(): Monday is 0, Sunday is 6
Weekday(d) == (ToOrdinal(d) + 6) % 7

\* calendar.SUNDAY, the first weekday of the TextCalendar of month_dates
SUNDAY == 6

PrevMonthOf(y, m) == IF m = 1 THEN [year |-> y - 1, month |-> 12]
                     ELSE [year |-> y, month |-> m - 1]

NextMonthOf(y, m) == IF m = 12 THEN [year |-> y + 1, month |-> 1]
                     ELSE [year |-> y, month |-> m + 1]

\* date + datetime.timedelta(days=1)
NextDay(d) ==
    IF d.day < DaysInMonth(d.year, d.month) THEN Date(d.year, d.month, d.day + 1)
    ELSE LET nm == NextMonthOf(d.year, d.month) IN Date(nm.year, nm.month, 1)

\* month_dates(year, month): monthdatescalendar of a Sunday-first calendar,
\* the weeks of the month, each of 7 dates, filled from the adjoining months
month_dates(year, month) ==
    LET first  == Date(year, month, 1)
        lead   == (Weekday(first) - SUNDAY) % 7
        dim    == DaysInMonth(year, month)
        nweeks == (lead + dim + 6) \div 7
        pm     == PrevMonthOf(year, month)
        nm     == NextMonthOf(year, month)
        pdim   == DaysInMonth(pm.year, pm.month)
        cell(k) == IF k < lead THEN Date(pm.year, pm.month, pdim - lead + 1 + k)
                   ELSE IF k < lead + dim THEN Date(year, month, k - lead + 1)
                   ELSE Date(nm.year, nm.month, k - lead - dim + 1)
    IN  [w \in 1..nweeks |-> [i \in 1..7 |-> cell((w - 1) * 7 + (i - 1))]]

\* previous_month(date): the last day of the month before date's
previous_month(d) ==
    LET pm == PrevMonthOf(d.year, d.month)
    IN  Date(pm.year, pm.month, DaysInMonth(pm.year, pm.month))

\* a mutant: the boundary week is never dropped
join_date_months_keep(preceding_month, current_month) ==
    preceding_month \o current_month

\* join_date_months(preceding_month, current_month)
join_date_months(preceding_month, current_month) ==
    IF current_month[1][1].month = current_month[1][7].month
    THEN preceding_month \o current_month
    ELSE PySlice(preceding_month, 0, -1) \o current_month

\* the for loop of last_n_weeks: the month cut after the first week holding date
TruncateAt(starting_month, d) ==
    IF \E i \in 1..Len(starting_month) : InList(d, starting_month[i])
    THEN LET i == CHOOSE i \in 1..Len(starting_month) :
                    /\ InList(d, starting_month[i])
                    /\ \A j \in 1..(i - 1) : ~InList(d, starting_month[j])
         IN  PySlice(starting_month, 0, i)
    ELSE starting_month

\* the while loop of last_n_weeks
RECURSIVE PrependMonths(_, _, _)
PrependMonths(current_weeks, current_date, n) ==
    IF Len(current_weeks) < n
    THEN LET cd == previous_month(current_date)
             earlier_month_dates == month_dates(cd.year, cd.month)
         IN  PrependMonths(join_date_months(earlier_month_dates, current_weeks), cd, n)
    ELSE current_weeks

\* a mutant: the trailing slice written current_weeks[-num_weeks:]
last_n_weeks_neg(d, n) ==
    LET current_weeks == PrependMonths(TruncateAt(month_dates(d.year, d.month), d), d, n)
    IN  PySliceFrom(current_weeks, 0 - n)

\* last_n_weeks(date, num_weeks)
last_n_weeks(d, n) ==
    LET current_weeks == PrependMonths(TruncateAt(month_dates(d.year, d.month), d), d, n)
    IN  PySliceFrom(current_weeks, Len(current_weeks) - n)

----------------------------------------------------------------------------
(* Strings: sequences of character codes *)

\* " "
SP == 32

\* "\n"
NL == 10

\* colored.fg(color): the escape sequence that sets the foreground colour
fg(color) == 1000 + color

IsEsc(c) == c >= 1000 /\ c <= 1255

\* \s of the re module
IsSpace(c) == c \in {9, 10, 11, 12, 13, 32}

\* \w of the re module
IsWord(c) == (c >= 48 /\ c <= 57) \/ (c >= 65 /\ c <= 90) \/ (c >= 97 /\ c <= 122) \/ c = 95

\* non_ansi_len(input_string): the length without the colour escapes
non_ansi_len(input_string) ==
    Cardinality({i \in 1..Len(input_string) : ~IsEsc(input_string[i])})

\* sep.join(strs)
RECURSIVE Join(_, _)
Join(strs, sep) ==
    IF Len(strs) = 0 THEN <<>>
    ELSE IF Len(strs) = 1 THEN strs[1]
    ELSE strs[1] \o sep \o Join(Tail(strs), sep)

\* the pieces of lst between the occurrences of sep, the last piece included
Pieces(lst, sep) ==
    LET at == {i \in 1..Len(lst) : lst[i] = sep}
        nth(k) == IF k = 0 THEN 0
                  ELSE IF k > Cardinality(at) THEN Len(lst) + 1
                  ELSE CHOOSE p \in at : Cardinality({q \in at : q < p}) = k - 1
    IN  [k \in 1..(Cardinality(at) + 1) |-> SubSeq(lst, nth(k - 1) + 1, nth(k) - 1)]

\* s.split(sep) for a one-character sep
Split(s, sep) == Pieces(s, sep)

\* s.splitlines(): no empty last line after a trailing newline
SplitLines(s) ==
    LET parts == Split(s, NL)
    IN  IF Len(parts) > 0 /\ parts[Len(parts)] = <<>>
        THEN SubSeq(parts, 1, Len(parts) - 1) ELSE parts

\* str(number) and "%2d" % number for 0 <= number <= 99
Digits(number) ==
    IF number < 10 THEN <<48 + number>>
    ELSE <<48 + (number \div 10), 48 + (number % 10)>>

\* date.strftime("%Y") for a four-digit year
StrfYear(d) ==
    <<48 + (d.year \div 1000), 48 + ((d.year \div 100) % 10),
      48 + ((d.year \div 10) % 10), 48 + (d.year % 10)>>

\* date.strftime("%b")
StrfMonth(d) ==
    << <<74, 97, 110>>, <<70, 101, 98>>, <<77, 97, 114>>, <<65, 112, 114>>,
       <<77, 97, 121>>, <<74, 117, 110>>, <<74, 117, 108>>, <<65, 117, 103>>,
       <<83, 101, 112>>, <<79, 99, 116>>, <<78, 111, 118>>, <<68, 101, 99>> >>[d.month]

----------------------------------------------------------------------------
(* The palette *)

COLORWAYS ==
    << <<236, 94, 136, 172, 208>>,
       <<236, 58, 100, 142, 184>>,
       <<236, 22, 28, 34, 40>>,
       <<236, 23, 30, 37, 44>>,
       <<236, 53, 90, 127, 164>>,
       <<236, 17, 18, 19, 20>>,
       <<236, 52, 88, 124, 160>>,
       <<236, 238, 241, 248, 255>> >>

DEFAULT_COLOR == 244

----------------------------------------------------------------------------
(* Statistics *)

RECURSIVE SumSeq(_)
SumSeq(s) == IF Len(s) = 0 THEN 0 ELSE s[1] + SumSeq(Tail(s))

RECURSIVE Insert(_, _)
Insert(x, s) ==
    IF Len(s) = 0 THEN <<x>>
    ELSE IF x <= s[1] THEN <<x>> \o s
    ELSE <<s[1]>> \o Insert(x, Tail(s))

\* list.sort(): ascending
RECURSIVE Sort(_)
Sort(s) == IF Len(s) = 0 THEN <<>> ELSE Insert(s[1], Sort(Tail(s)))

\* calculate_quartiles(list_of_numbers); a Python index i is the element i + 1
calculate_quartiles(numbers) ==
    IF Len(numbers) > 0
    THEN LET sorted == Sort(numbers)
             n == Len(sorted)
         IN  <<sorted[(n \div 4) + 1], sorted[(n \div 2) + 1], sorted[3 * (n \div 4) + 1]>>
    ELSE <<0, 0, 0>>

----------------------------------------------------------------------------
(* Dicts: functions; their iteration order is the hash order dict_order *)

\* d.keys(), and the order of d.iteritems() and d.values()
DictKeys(d) == SelectSeq(dict_order, LAMBDA k : k \in DOMAIN d)

DictValues(d) == [i \in 1..Len(DictKeys(d)) |-> d[DictKeys(d)[i]]]

\* d[k] = v
DictSet(d, k, v) == (k :> v) @@ d

\* lst.index(x), counted from 0
RECURSIVE IndexOf(_, _)
IndexOf(lst, x) == IF lst[1] = x THEN 0 ELSE 1 + IndexOf(Tail(lst), x)

\* only1(iterable): any(i) stops after the first true element, not any(i) then
\* asks that none of the rest is true
only1(iterable) ==
    \E i \in 1..Len(iterable) :
        /\ iterable[i] # 0
        /\ \A j \in 1..Len(iterable) : j # i => iterable[j] = 0

----------------------------------------------------------------------------
(* Colours and glyphs.  A GAD is [day, commits]: gad[0] and gad[1] *)

Gad(day, commits) == [day |-> day, commits |-> commits]

\* sum(gad[1].values())
TotalCommits(commits) ==
    LET RECURSIVE Sum(_)
        Sum(ks) == IF ks = {} THEN 0
                   ELSE LET k == CHOOSE k \in ks : TRUE
                        IN  commits[k] + Sum(ks \ {k})
    IN  Sum(DOMAIN commits)

\* the loop of determine_color_for: the last repository with commits, or ""
ActiveRepo(commits) ==
    LET act == SelectSeq(DictKeys(commits), LAMBDA k : commits[k] > 0)
    IN  IF Len(act) = 0 THEN <<>> ELSE act[Len(act)]

\* the colorway (palette row, from 0) determine_color_for picks
Colorway(commits) ==
    IF ~only1(DictValues(commits))
    THEN Len(COLORWAYS) - 1
    ELSE IndexOf(DictKeys(commits), ActiveRepo(commits)) % (Len(COLORWAYS) - 1)

\* a mutant: the buckets tested with < instead of <=
ColorIndex_strict(total_commits, quartiles) ==
    IF total_commits = 0 THEN 0
    ELSE IF total_commits < quartiles[1] THEN 1
    ELSE IF total_commits < quartiles[2] THEN 2
    ELSE IF total_commits < quartiles[3] THEN 3
    ELSE 4

\* the color_index (intensity, from 0) determine_color_for picks
ColorIndex(total_commits, quartiles) ==
    IF total_commits = 0 THEN 0
    ELSE IF total_commits <= quartiles[1] THEN 1
    ELSE IF total_commits <= quartiles[2] THEN 2
    ELSE IF total_commits <= quartiles[3] THEN 3
    ELSE 4

\* determine_color_for(gad, quartiles)
determine_color_for(commits, quartiles) ==
    COLORWAYS[Colorway(commits) + 1][ColorIndex(TotalCommits(commits), quartiles) + 1]

\* colorize_string(string, color)
colorize_string(string, color) == <<fg(color)>> \o string \o <<fg(DEFAULT_COLOR)>>

\* render_numeric_string(number, color): a list of one box of one string
render_numeric_string(number, color) ==
    LET rendered_string == IF number > 99 THEN <<42, 42>>
                           ELSE IF number > 0
                                THEN (IF number < 10 THEN <<SP>> \o Digits(number)
                                      ELSE Digits(number))
                                ELSE <<45, 45>>
    IN  << <<colorize_string(rendered_string, color)>> >>

\* render_colored_block_string(color): the block is U+25FC
render_colored_block_string(color) == << <<colorize_string(<<9724>>, color)>> >>

\* gad_render_func(DUMMY_GAD, quartiles): DUMMY_GAD has 0, 1 and 2 commits in
\* three repositories, so two are active and its total is 3
RenderDummyGad(display_type, quartiles) ==
    LET color == COLORWAYS[Len(COLORWAYS)][ColorIndex(0 + 1 + 2, quartiles) + 1]
    IN  IF display_type = "block" THEN render_colored_block_string(color)
        ELSE render_numeric_string(0 + 1 + 2, color)

\* render_numeric_gad and render_colored_block_gad, chosen by the display type
RenderGad(display_type, commits, quartiles) ==
    IF display_type = "block"
    THEN render_colored_block_string(determine_color_for(commits, quartiles))
    ELSE render_numeric_string(TotalCommits(commits), determine_color_for(commits, quartiles))

\* the year row of render_gads: one box per character of "%s    " % year
YearRow(week) ==
    LET text == StrfYear(week[7].day) \o <<SP, SP, SP, SP>>
    IN  [i \in 1..Len(text) |-> <<<<text[i]>>>>]

\* a mutant: a week that starts on the first of a month gets no label
WeekBoxes_span(week, display_type, quartiles, element_width) ==
    LET d0 == week[1].day
        d6 == week[7].day
    IN  (IF d0.year # d6.year \/ (d0.day = 1 /\ d0.month = 1)
         THEN YearRow(week) \o <<<<<<NL>>>>>>
         ELSE <<>>)
        \o [i \in 1..7 |-> RenderGad(display_type, week[i].commits, quartiles)[1]]
        \o (IF d0.month # d6.month
            THEN <<<<StrfMonth(d6)>>>>
            ELSE <<<<[i \in 1..element_width |-> SP]>>>>)
        \o <<<<<<NL>>>>>>

\* the body of the loop of render_gads: the boxes one week adds
WeekBoxes(week, display_type, quartiles, element_width) ==
    LET d0 == week[1].day
        d6 == week[7].day
    IN  (IF d0.year # d6.year \/ (d0.day = 1 /\ d0.month = 1)
         THEN YearRow(week) \o <<<<<<NL>>>>>>
         ELSE <<>>)
        \o [i \in 1..7 |-> RenderGad(display_type, week[i].commits, quartiles)[1]]
        \o (IF d0.month # d6.month \/ d0.day = 1
            THEN <<<<StrfMonth(d6)>>>>
            ELSE <<<<[i \in 1..element_width |-> SP]>>>>)
        \o <<<<<<NL>>>>>>

\* render_gads(gad_weeks, gad_render_func, quartiles): the list of boxes
render_gads(gad_weeks, display_type, quartiles) ==
    LET element_width == non_ansi_len(RenderDummyGad(display_type, quartiles)[1][1])
        RECURSIVE Weeks(_)
        Weeks(i) == IF i > Len(gad_weeks) THEN <<>>
                    ELSE WeekBoxes(gad_weeks[i], display_type, quartiles, element_width)
                         \o Weeks(i + 1)
    IN  Weeks(1)

\* daily_commit_counts(gads): the nonzero daily totals, in date order
daily_commit_counts(gads) ==
    LET flat_gads == Flatten(gads)
        total_commits_per_day == [i \in 1..Len(flat_gads) |-> TotalCommits(flat_gads[i].commits)]
    IN  SelectSeq(total_commits_per_day, LAMBDA commits : commits # 0)

\* render_author(author_string, gad_counts, display_mode, show_total)
render_author(author_string, gad_counts, display_mode, show_total) ==
    LET width_limit == MAX_WIDTH - 5
        trailing_text == IF ~show_total THEN <<>>
                         ELSE IF display_mode = "block" THEN Digits(Len(gad_counts))
                         ELSE IF display_mode = "numeric" THEN Digits(SumSeq(gad_counts))
                         ELSE <<>>
        cut == IF Len(author_string) + Len(trailing_text) > width_limit
               THEN PySlice(author_string, 0, width_limit - Len(trailing_text))
               ELSE author_string
    IN  colorize_string(cut \o <<SP>> \o colorize_string(trailing_text, DEFAULT_COLOR), 255)

----------------------------------------------------------------------------
(* Layout: the two orientations and the table *)

\* split_list_on(element, lst): what follows the last element is dropped
split_list_on(element, lst) ==
    LET pieces == Pieces(lst, element)
    IN  SubSeq(pieces, 1, Len(pieces) - 1)

\* the shortest length among rows
MinLen(rows) ==
    IF Len(rows) = 0 THEN 0
    ELSE CHOOSE n \in {Len(rows[i]) : i \in 1..Len(rows)} :
             \A i \in 1..Len(rows) : n <= Len(rows[i])

\* zip(*rows): the columns, as many as the shortest row has elements
Zip(rows) == [c \in 1..MinLen(rows) |-> [r \in 1..Len(rows) |-> rows[r][c]]]

\* a mutant: the last column is lost in the reflection
diagonally_reflect_drop(lst) ==
    [a \in 1..Len(lst) |-> SubSeq(Zip(lst[a]), 1, MinLen(lst[a]) - 1)]

\* diagonally_reflect(lst)
diagonally_reflect(lst) == [a \in 1..Len(lst) |-> Zip(lst[a])]

\* [char for box in week for char in box]
BoxChars(week) ==
    LET RECURSIVE Go(_)
        Go(i) == IF i > Len(week) THEN <<>> ELSE week[i] \o Go(i + 1)
    IN  Go(1)

\* merge_rendered_gads(rendered_gads): one string for each author
merge_rendered_gads(rendered_gads) ==
    [a \in 1..Len(rendered_gads) |->
        Join([w \in 1..Len(rendered_gads[a]) |-> Join(BoxChars(rendered_gads[a][w]), <<SP>>)],
             <<NL>>)]

\* re.findall(r"\s+|\w+", line): the runs of blanks and the runs of word
\* characters, anything else is skipped
FindRuns(line) ==
    LET RECURSIVE Go(_, _)
        Go(i, cur) ==
            IF i > Len(line) THEN (IF cur = <<>> THEN <<>> ELSE <<cur>>)
            ELSE LET c == line[i]
                     same == /\ cur # <<>>
                             /\ \/ (IsSpace(c) /\ IsSpace(cur[1]))
                                \/ (IsWord(c) /\ IsWord(cur[1]))
                     flush == IF cur = <<>> THEN <<>> ELSE <<cur>>
                 IN  IF same THEN Go(i + 1, Append(cur, c))
                     ELSE IF IsSpace(c) \/ IsWord(c) THEN flush \o Go(i + 1, <<c>>)
                     ELSE flush \o Go(i + 1, <<>>)
    IN  Go(1, <<>>)

\* adjust_month_label_spacing(gad_month_string): the string has at least two
\* lines; groups()[0] is all but the last line, groups()[1] the line before the
\* last with its newline, groups()[2] the last line
adjust_month_label_spacing(gad_month_string) ==
    LET lines == Split(gad_month_string, NL)
        n == Len(lines)
        head == Join(SubSeq(lines, 1, n - 1), <<NL>>) \o <<NL>>
        before_last == lines[n - 1] \o <<NL>>
        element_width == non_ansi_len(Split(before_last, SP)[1])
        overrun == 3 - element_width
        month_line == FindRuns(lines[n])
        mod_month_line ==
            [i \in 1..Len(month_line) |->
                LET x == IF i > 1 /\ IsSpace(month_line[i][1])
                         THEN PySlice(month_line[i], 0, 0 - overrun)
                         ELSE month_line[i]
                IN  IF Len(x) < element_width THEN <<SP, SP>> ELSE x]
    IN  head \o Join(mod_month_line, <<>>)

\* render_author_gads(author_gads, gads_render_func, author_render_func,
\* orientation): the pair (authors, unboxed_gads); an orientation that is
\* neither "vertical" nor "horizontal" exits, argparse lets no other through
render_author_gads(author_gads, display_type, show_total, orientation) ==
    LET keys == DictKeys(author_gads)
        names == [i \in 1..Len(keys) |->
                    render_author(keys[i], daily_commit_counts(author_gads[keys[i]]),
                                  display_type, show_total)]
        rendered_gads == [i \in 1..Len(keys) |->
                    render_gads(author_gads[keys[i]], display_type,
                                calculate_quartiles(daily_commit_counts(author_gads[keys[i]])))]
        split_rendered_gads == [i \in 1..Len(keys) |-> split_list_on(<<<<NL>>>>, rendered_gads[i])]
        unboxed_gads ==
            IF orientation = "vertical"
            THEN merge_rendered_gads(split_rendered_gads)
            ELSE LET merged == merge_rendered_gads(diagonally_reflect(split_rendered_gads))
                 IN  [i \in 1..Len(merged) |-> adjust_month_label_spacing(merged[i])]
    IN  [authors |-> names, unboxed_gads |-> unboxed_gads]

\* [lst[i:i + width] for i in xrange(0, len(lst), width)]
Chunks(lst, width) ==
    [c \in 1..((Len(lst) + width - 1) \div width) |->
        PySlice(lst, (c - 1) * width, (c - 1) * width + width)]

\* a mutant: the grids chunked one column wider than the names
TableData_skew(names, rendered_gad_months, width) ==
    LET a == Chunks(names, width)
        g == Chunks(rendered_gad_months, width + 1)
    IN  [r \in 1..(2 * Min(Len(a), Len(g))) |->
            IF r % 2 = 1 THEN a[(r + 1) \div 2] ELSE g[r \div 2]]

\* list(chain.from_iterable(izip(chunks of authors, chunks of grids)))
TableData(names, rendered_gad_months, width) ==
    LET a == Chunks(names, width)
        g == Chunks(rendered_gad_months, width)
    IN  [r \in 1..(2 * Min(Len(a), Len(g))) |->
            IF r % 2 = 1 THEN a[(r + 1) \div 2] ELSE g[r \div 2]]

\* max(lst)
MaxOf(lst) == CHOOSE m \in {lst[i] : i \in 1..Len(lst)} : \A i \in 1..Len(lst) : lst[i] <= m

\* the column width display_tabled_gads settles on
TableWidth(names, rendered_gad_months, width) ==
    IF Len(names) <= 1 THEN 1
    ELSE IF width = 0
    THEN LET grid_lines == SplitLines(rendered_gad_months[2])
             gad_width == MaxOf([i \in 1..Len(grid_lines) |-> non_ansi_len(grid_lines[i])])
             author_width == MaxOf([i \in 1..Len(names) |-> non_ansi_len(names[i])])
             auto_width == (MAX_WIDTH - 1) \div (Max(gad_width, author_width) + 3)
         IN  Max(1, auto_width)
    ELSE width

\* display_tabled_gads(authors, rendered_gad_months, title, border, width):
\* the rows handed to the table renderer
display_tabled_gads(names, rendered_gad_months, width) ==
    TableData(names, rendered_gad_months, TableWidth(names, rendered_gad_months, width))

----------------------------------------------------------------------------
(* Aggregation *)

\* [[(day, {}) for day in week] for week in time_period]
BlankGads(period) ==
    [w \in 1..Len(period) |-> [i \in 1..Len(period[w]) |-> Gad(period[w][i], <<>>)]]

\* gad_zip(annotated_date, sum_commits, repo_dir)
gad_zip(annotated_date, sum_commits, repo_dir) ==
    LET count == IF annotated_date.day \in DOMAIN sum_commits
                 THEN sum_commits[annotated_date.day] ELSE 0
    IN  Gad(annotated_date.day, DictSet(annotated_date.commits, repo_dir, count))

\* [[gad_zip(day, counted_commits, repo_dir) for day in week] for week in gads]
ZipGads(gads, counted_commits, repo_dir) ==
    [w \in 1..Len(gads) |->
        [i \in 1..Len(gads[w]) |-> gad_zip(gads[w][i], counted_commits, repo_dir)]]

----------------------------------------------------------------------------
(* The run of main() *)

\* the repositories and authors a configuration file may name
RepoName(i) == <<126, 47, 96 + i>>

AuthorName(i) == <<97 + i, 110, 110>>

\* repositories = ["./"], the default
DefaultRepositories == <<<<46, 47>>>>

\* the value of an option that was not given
NotGiven == {}

\* a mutant: zero let through
positive_int_raises_neg(value) == value < 0

\* positive_int(value): TRUE when it raises ArgumentTypeError
positive_int_raises(value) == value <= 0

\* the value of an option of type positive_int, or its default
OptionValue(given, default) == IF given = NotGiven THEN default ELSE CHOOSE v \in given : TRUE

\* arg_parser.parse_args(): a usage error when a given value is rejected
ArgsRejected ==
    \/ \E v \in argv.duration : positive_int_raises(v)
    \/ \E v \in argv.width : positive_int_raises(v)

ParseArgs ==
    /\ pc = "parse_args"
    /\ IF ArgsRejected
       THEN /\ pc' = "usage_error"
            /\ args' = args
       ELSE /\ pc' = "load_config"
            /\ args' = [duration |-> OptionValue(argv.duration, 12),
                        width |-> OptionValue(argv.width, 0),
                        fetch |-> argv.fetch,
                        display_type |-> argv.display_type,
                        orientation |-> argv.orientation,
                        total |-> argv.total]
    /\ UNCHANGED <<repositories, authors, time_period, fetched, calls,
                   gads_by_author, gads_by_date, author_i, repo_i, rendered, stdout>>
    /\ UNCHANGED <<envVars, fnVars>>

\* the configuration file read: a list it names replaces the default
LoadConfig ==
    /\ pc = "load_config"
    /\ repositories' = IF Len(cfg.repositories) > 0 THEN cfg.repositories
                       ELSE DefaultRepositories
    /\ authors' = cfg.authors
    /\ pc' = "window"
    /\ UNCHANGED <<args, time_period, fetched, calls,
                   gads_by_author, gads_by_date, author_i, repo_i, rendered, stdout>>
    /\ UNCHANGED <<envVars, fnVars>>

\* time_period = last_n_weeks(TODAY, args.duration)
BuildWindow ==
    /\ pc = "window"
    /\ time_period' = last_n_weeks(TODAY, args.duration)
    /\ pc' = IF args.fetch THEN "fetch" ELSE "aggregate_start"
    /\ UNCHANGED <<args, repositories, authors, fetched, calls,
                   gads_by_author, gads_by_date, author_i, repo_i, rendered, stdout>>
    /\ UNCHANGED <<envVars, fnVars>>

\* fetch_commits(repositories, args.verbose)
Fetch ==
    /\ pc = "fetch"
    /\ fetched' = repositories
    /\ pc' = "aggregate_start"
    /\ UNCHANGED <<args, repositories, authors, time_period, calls,
                   gads_by_author, gads_by_date, author_i, repo_i, rendered, stdout>>
    /\ UNCHANGED <<envVars, fnVars>>

\* list(set(authors)): no duplicates, in the hash order
SetList(lst) == SelectSeq(dict_order, LAMBDA k : InList(k, lst))

\* authors = list(set(authors)) and the entry of aggregate_gads
StartAggregate ==
    /\ pc = "aggregate_start"
    /\ authors' = SetList(authors)
    /\ gads_by_author' = <<>>
    /\ gads_by_date' = BlankGads(time_period)
    /\ author_i' = 1
    /\ repo_i' = 1
    /\ pc' = "aggregate"
    /\ UNCHANGED <<args, repositories, time_period, fetched, calls, rendered, stdout>>
    /\ UNCHANGED <<envVars, fnVars>>

\* the author the next counter call filters by: "" without authors
CurrentAuthor == IF Len(authors) > 0 THEN authors[author_i] ELSE <<>>

\* one call of count_commits_for that returns, zipped into the window; after
\* the last repository of an author (with authors), or after each repository
\* (without), the window is stored under its key
CounterCall ==
    /\ pc = "aggregate"
    /\ LET by_author == Len(authors) > 0
           repo_dir == repositories[repo_i]
           counted_commits == git_log[<<CurrentAuthor, repo_dir>>]
           zipped == ZipGads(gads_by_date, counted_commits, repo_dir)
           last_repo == repo_i = Len(repositories)
           last_author == author_i = Len(authors)
       IN  /\ calls' = Append(calls, [author |-> CurrentAuthor, repo |-> repo_dir,
                                       raised |-> FALSE])
           /\ IF by_author
              THEN /\ gads_by_author' = IF last_repo
                                        THEN DictSet(gads_by_author, CurrentAuthor, zipped)
                                        ELSE gads_by_author
                   /\ gads_by_date' = IF last_repo THEN BlankGads(time_period) ELSE zipped
                   /\ repo_i' = IF last_repo THEN 1 ELSE repo_i + 1
                   /\ author_i' = IF last_repo THEN author_i + 1 ELSE author_i
                   /\ pc' = IF last_repo /\ last_author THEN "render" ELSE "aggregate"
              ELSE /\ gads_by_author' = DictSet(gads_by_author, repo_dir, zipped)
                   /\ gads_by_date' = BlankGads(time_period)
                   /\ repo_i' = repo_i + 1
                   /\ author_i' = author_i
                   /\ pc' = IF last_repo THEN "render" ELSE "aggregate"
    /\ UNCHANGED <<args, repositories, authors, time_period, fetched, rendered, stdout>>
    /\ UNCHANGED <<envVars, fnVars>>

\* a mutant: the exception caught and the run going on with what it has
CounterFail_swallow ==
    /\ pc = "aggregate"
    /\ calls' = Append(calls, [author |-> CurrentAuthor, repo |-> repositories[repo_i],
                               raised |-> TRUE])
    /\ pc' = "render"
    /\ UNCHANGED <<args, repositories, authors, time_period, fetched,
                   gads_by_author, gads_by_date, author_i, repo_i, rendered, stdout>>
    /\ UNCHANGED <<envVars, fnVars>>

\* one call of count_commits_for that raises: nothing catches it, the run ends
\* in sys.excepthook, which prints one line "ErrorKind: message"
CounterFail ==
    /\ pc = "aggregate"
    /\ calls' = Append(calls, [author |-> CurrentAuthor, repo |-> repositories[repo_i],
                               raised |-> TRUE])
    /\ stdout' = Append(stdout, [kind |-> "error", rows |-> <<>>])
    /\ pc' = "aborted"
    /\ UNCHANGED <<args, repositories, authors, time_period, fetched,
                   gads_by_author, gads_by_date, author_i, repo_i, rendered>>
    /\ UNCHANGED <<envVars, fnVars>>

\* authors, rendered_gad_months = render_author_gads(...)
Render ==
    /\ pc = "render"
    /\ rendered' = render_author_gads(gads_by_author, args.display_type, args.total,
                                      args.orientation)
    /\ pc' = "display"
    /\ UNCHANGED <<args, repositories, authors, time_period, fetched, calls,
                   gads_by_author, gads_by_date, author_i, repo_i, stdout>>
    /\ UNCHANGED <<envVars, fnVars>>

\* display_tabled_gads(...): the table is printed
Display ==
    /\ pc = "display"
    /\ stdout' = Append(stdout, [kind |-> "table",
                                 rows |-> display_tabled_gads(rendered.authors,
                                                              rendered.unboxed_gads,
                                                              args.width)])
    /\ pc' = "done"
    /\ UNCHANGED <<args, repositories, authors, time_period, fetched, calls,
                   gads_by_author, gads_by_date, author_i, repo_i, rendered>>
    /\ UNCHANGED <<envVars, fnVars>>

MainNext ==
    \/ ParseArgs
    \/ LoadConfig
    \/ BuildWindow
    \/ Fetch
    \/ StartAggregate
    \/ CounterCall
    \/ CounterFail
    \/ Render
    \/ Display

\* date - datetime.timedelta(days=1)
PrevDay(d) ==
    IF d.day > 1 THEN Date(d.year, d.month, d.day - 1) ELSE previous_month(d)

\* the last n days up to d
RECURSIVE LastDays(_, _)
LastDays(d, n) == IF n = 0 THEN {} ELSE {d} \cup LastDays(PrevDay(d), n - 1)

\* what one git log call may answer: a count for some of the days
CountMaps(days, max) == UNION {[S -> 1..max] : S \in SUBSET days}

\* the orders the keys lst may be iterated in: as listed, reversed, or rotated
\* by one (all the orders of one or two keys)
SomeOrders(lst) ==
    LET n == Len(lst)
    IN  {lst, [i \in 1..n |-> lst[n + 1 - i]], [i \in 1..n |-> lst[(i % n) + 1]]}

Range(lst) == {lst[i] : i \in 1..Len(lst)}

\* the repositories main() ends up with for a configuration
ReposOf(c) == IF Len(c.repositories) > 0 THEN c.repositories ELSE DefaultRepositories

\* the counter calls a run makes: every author with every repository, or every
\* repository with no author filter
CallsOf(c) ==
    IF Len(c.authors) > 0 THEN Range(c.authors) \X Range(ReposOf(c))
    ELSE {<<>>} \X Range(ReposOf(c))

Given(values) == {{v} : v \in values}

Option(values) == {NotGiven} \cup Given(values)

\* the day main() is run on: in a week that spans a year and a month
TodayDates == {Date(2024, 1, 3)}

TermWidths == {20, 80}

CalOff ==
    /\ date = <<>>
    /\ num_weeks = 0
    /\ weeks = <<>>
    /\ cal_pc = "off"

StatOff ==
    /\ list_of_numbers = <<>>
    /\ quartile_triple = <<>>
    /\ stat_pc = "off"

CountOff ==
    /\ commit_stamps = <<>>
    /\ commits_counted_by_date = <<>>
    /\ count_pc = "off"

RunStart ==
    /\ pc = "parse_args"
    /\ args = <<>>
    /\ repositories = <<>>
    /\ authors = <<>>
    /\ time_period = <<>>
    /\ fetched = <<>>
    /\ calls = <<>>
    /\ gads_by_author = <<>>
    /\ gads_by_date = <<>>
    /\ author_i = 0
    /\ repo_i = 0
    /\ rendered = <<>>
    /\ stdout = <<>>

\* the command lines of a run
Argvs(durations, widths, display_types, orientations) ==
    [duration : durations, width : widths, fetch : BOOLEAN,
     display_type : display_types, orientation : orientations, total : {FALSE}]

\* the configuration files of a run
Cfgs(repo_counts, author_counts) ==
    [repositories : {[i \in 1..n |-> RepoName(i)] : n \in repo_counts},
     authors : {[i \in 1..n |-> AuthorName(i)] : n \in author_counts}]

\* the start of a run of main() in one of the given environments; every
\* counter call may answer any count up to max_commits for each of the last
\* log_days days
RunInit(todays, term_widths, argvs, cfgs, log_days, max_commits) ==
    /\ TODAY \in todays
    /\ MAX_WIDTH \in term_widths
    /\ argv \in argvs
    /\ cfg \in cfgs
    /\ dict_order \in {ro \o ao : ro \in SomeOrders(ReposOf(cfg)),
                                  ao \in SomeOrders(cfg.authors)}
    /\ git_log \in [CallsOf(cfg) -> CountMaps(LastDays(TODAY, log_days), max_commits)]
    /\ RunStart
    /\ CalOff
    /\ StatOff
    /\ CountOff

MainInit ==
    RunInit(TodayDates, TermWidths,
            Argvs(Given(-1..MaxDuration), Option(-1..MaxWidthArg),
                  {"block", "numeric"}, {"vertical", "horizontal"}),
            Cfgs(RunRepoCounts, RunAuthorCounts), 1, 1)

Spec == MainInit /\ [][MainNext]_vars

\* the table was written to standard output
TableWritten == \E i \in 1..Len(stdout) : stdout[i].kind = "table"

\* the run is past aggregate_gads
Aggregated == pc \in {"render", "display", "done"}

\* C2: after aggregation, in both modes, there is a GAD for every date of the
\* window and the repository map of every GAD has exactly the configured
\* repositories as its keys.
C2_FullKeySet ==
    Aggregated =>
        \A k \in DOMAIN gads_by_author :
            /\ Len(gads_by_author[k]) = Len(time_period)
            /\ \A w \in 1..Len(time_period) : \A i \in 1..7 :
                  /\ gads_by_author[k][w][i].day = time_period[w][i]
                  /\ DOMAIN gads_by_author[k][w][i].commits = Range(repositories)

\* C7: once a counter call has raised, it is the last call made and no table
\* is written to standard output; the run is over.
C7_AbortOnFailure ==
    \A i \in 1..Len(calls) :
        calls[i].raised => (i = Len(calls) /\ ~TableWritten /\ pc = "aborted")

\* the second call of a run raised
C7_Witness ==
    /\ pc = "aborted"
    /\ Len(calls) = 2
    /\ ~calls[1].raised
    /\ calls[2].raised

\* C9: a run given a non-positive duration or width ends in the usage error of
\* argument parsing, with no window built, nothing fetched, no counter call
\* made and nothing rendered or written.
C9_RejectedFirst ==
    ((\E v \in argv.duration : v <= 0) \/ (\E v \in argv.width : v <= 0)) =>
        /\ pc \in {"parse_args", "usage_error"}
        /\ time_period = <<>>
        /\ fetched = <<>>
        /\ calls = <<>>
        /\ rendered = <<>>
        /\ stdout = <<>>

\* a run given --width 0 and a valid duration, with fetching asked for, ended
\* in the usage error
C9_Witness ==
    /\ pc = "usage_error"
    /\ argv.width = {0}
    /\ argv.duration = {1}
    /\ argv.fetch

----------------------------------------------------------------------------
(* The colour of every GAD of a run *)

\* the position of x in lst, counted from 0
Pos(lst, x) == (CHOOSE i \in 1..Len(lst) : lst[i] = x) - 1

\* the shades of palette row k (from 0) above the zero shade
Shades(k) == {COLORWAYS[k + 1][j] : j \in 2..5}

\* the repositories with commits in a GAD's map
Active(commits) == {r \in DOMAIN commits : commits[r] > 0}

\* C4: every aggregated GAD, coloured with the quartiles of its window as
\* render_author_gads does, gets a shade of the last palette row when two or
\* more repositories are active; when exactly one repository is active it gets
\* a shade of the row whose index is the position of that repository in the
\* list of configured repositories modulo (palette size - 1), the highest shade
\* when the day's total is above Q3.
C4_HueByConfigOrder ==
    Aggregated =>
        \A k \in DOMAIN gads_by_author :
          \A w \in 1..Len(gads_by_author[k]) : \A i \in 1..7 :
            LET commits == gads_by_author[k][w][i].commits
                q == calculate_quartiles(daily_commit_counts(gads_by_author[k]))
                color == determine_color_for(commits, q)
            IN  /\ Cardinality(Active(commits)) >= 2 =>
                      color \in Shades(Len(COLORWAYS) - 1)
                /\ Cardinality(Active(commits)) = 1 =>
                      LET r == CHOOSE r \in Active(commits) : TRUE
                          row == Pos(repositories, r) % (Len(COLORWAYS) - 1)
                      IN  /\ color \in Shades(row)
                          /\ commits[r] > q[3] => color = COLORWAYS[row + 1][5]

----------------------------------------------------------------------------
(* End to end: one week, one author, one repository *)

E2EInit ==
    RunInit({Date(2024, 1, 3), Date(2024, 3, 14)}, {80},
            Argvs({{1}}, {NotGiven}, {"block", "numeric"}, {"vertical", "horizontal"}),
            Cfgs({0, 1}, {1}), LogDays, MaxCommits)

SpecE2E == E2EInit /\ [][MainNext]_vars

Rendered == pc \in {"display", "done"}

\* the colours of the block glyphs of a rendered string, in order
GlyphColors(str) ==
    LET at == SelectSeq([i \in 1..Len(str) |-> i], LAMBDA i : str[i] = 9724)
    IN  [j \in 1..Len(at) |-> str[at[j] - 1] - 1000]

\* the intensity level (0 to 4) of a palette colour
LevelOf(color) ==
    (CHOOSE j \in 1..5 : \E k \in 1..Len(COLORWAYS) : COLORWAYS[k][j] = color) - 1

\* how many glyphs of a rendered string have the given level
GlyphsAtLevel(str, level) ==
    Cardinality({j \in 1..Len(GlyphColors(str)) : LevelOf(GlyphColors(str)[j]) = level})

\* git log reports n commits on one day of the window and none on another,
\* for the one author and the one repository of the run, shown as blocks
OneDayOf(n) ==
    /\ Rendered
    /\ args.display_type = "block"
    /\ Len(authors) = 1
    /\ Len(repositories) = 1
    /\ Len(time_period) = 1
    /\ LET log == git_log[<<authors[1], repositories[1]>>]
       IN  /\ Cardinality(DOMAIN log) = 1
           /\ \A d \in DOMAIN log : InList(d, time_period[1]) /\ log[d] = n

\* the one rendered grid has 6 glyphs in the zero shade and 1 at the given
\* level, the quartiles of the author being (3, 3, 3)
SixZeroAndOne(level) ==
    /\ calculate_quartiles(daily_commit_counts(gads_by_author[authors[1]])) = <<3, 3, 3>>
    /\ Len(rendered.unboxed_gads) = 1
    /\ Len(GlyphColors(rendered.unboxed_gads[1])) = 7
    /\ GlyphsAtLevel(rendered.unboxed_gads[1], 0) = 6
    /\ GlyphsAtLevel(rendered.unboxed_gads[1], level) = 1

\* C5 as claimed: 3 commits on one day of a 1-week window give 6 glyphs in the
\* zero shade and 1 glyph of intensity level 3.
C5_LevelThree == OneDayOf(3) => SixZeroAndOne(3)

\* C5 as the code behaves: 3 commits on one day of a 1-week window give 6
\* glyphs in the zero shade and 1 glyph of intensity level 1: the quartiles are
\* (3, 3, 3) and the count 3 is first found to be <= Q1.
C5_LevelOne == OneDayOf(3) => SixZeroAndOne(1)

C5_Witness ==
    /\ OneDayOf(3)
    /\ pc = "done"
    /\ args.orientation = "vertical"
    /\ GlyphColors(rendered.unboxed_gads[1]) \in
          {[j \in 1..7 |-> IF j = p THEN COLORWAYS[1][2] ELSE COLORWAYS[1][1]] : p \in 1..7}

----------------------------------------------------------------------------
(* Windows of several shapes: the two orientations *)

\* the days the windows end on: in a week that spans two years, in the week
\* that starts on the first of January, in weeks that start on the first of a
\* month, in a week that spans two months, in a week inside a month
RenderDates == {Date(2024, 1, 3), Date(2023, 1, 5), Date(2024, 9, 20), Date(2023, 10, 1),
                Date(2024, 3, 1), Date(2024, 3, 14)}

RenderInit ==
    RunInit(RenderDates, {80},
            Argvs(Given(1..MaxRenderWeeks), {NotGiven}, {"block", "numeric"},
                  {"vertical", "horizontal"}),
            Cfgs({0}, {1}), 1, 11)

SpecRender == RenderInit /\ [][MainNext]_vars

\* the glyphs and labels of a rendered string: its runs of characters other
\* than the space and the newline, in order
Words(str) ==
    LET spaced == [i \in 1..Len(str) |-> IF str[i] = NL THEN SP ELSE str[i]]
    IN  SelectSeq(Pieces(spaced, SP), LAMBDA piece : Len(piece) > 0)

\* a sequence as a multiset
BagOf(lst) == [x \in Range(lst) |-> Cardinality({i \in 1..Len(lst) : lst[i] = x})]

OtherOrientation == IF args.orientation = "vertical" THEN "horizontal" ELSE "vertical"

\* C6: the rendering of every author in the orientation of the run and the
\* rendering of the same activity in the other orientation hold the same
\* multiset of glyphs and labels.
C6_SameGlyphs ==
    Rendered =>
        LET other == render_author_gads(gads_by_author, args.display_type, args.total,
                                        OtherOrientation).unboxed_gads
        IN  /\ Len(other) = Len(rendered.unboxed_gads)
            /\ \A i \in 1..Len(other) :
                  BagOf(Words(other[i])) = BagOf(Words(rendered.unboxed_gads[i]))

\* a horizontal rendering of the longest window, with a year row, a month
\* label and a day with commits
C6_Witness ==
    /\ Rendered
    /\ args.orientation = "horizontal"
    /\ args.display_type = "block"
    /\ Len(time_period) = MaxRenderWeeks
    /\ TODAY = Date(2024, 1, 3)
    /\ \E i \in 1..Len(Words(rendered.unboxed_gads[1])) :
          Words(rendered.unboxed_gads[1])[i] = StrfMonth(TODAY)
    /\ \E i \in 1..Len(Words(rendered.unboxed_gads[1])) :
          Words(rendered.unboxed_gads[1])[i] = <<50>>
    /\ Len(GlyphColors(rendered.unboxed_gads[1])) = 7 * MaxRenderWeeks
    /\ GlyphsAtLevel(rendered.unboxed_gads[1], 1) = 1

\* what render_author_gads has render_gads make of the window of key k
GadBoxes(k) ==
    render_gads(gads_by_author[k], args.display_type,
                calculate_quartiles(daily_commit_counts(gads_by_author[k])))

\* the rows of boxes that are not a year row: a year row is made of boxes of
\* one character, a glyph has its colour escapes around it
WeekRowsOf(boxes) ==
    SelectSeq(split_list_on(<<<<NL>>>>, boxes), LAMBDA row : Len(row[1][1]) > 1)

\* the first days of a month in a window
FirstDays(gad_weeks) ==
    {d \in {gad_weeks[w][i].day : w \in 1..Len(gad_weeks), i \in 1..7} : d.day = 1}

\* C12: render_gads ends with a newline box and gives one row for every week
\* of the window besides the year rows: the 7 glyphs of the week's days in
\* date order and one trailing box, the abbreviation of the month of the
\* week's last day when the week holds the first day of a month and otherwise
\* blanks as wide as a glyph; every month whose first day is in the window is
\* the label of exactly one row.
C12_WeekRows ==
    Rendered =>
        \A k \in DOMAIN gads_by_author : \A boxes \in {GadBoxes(k)} :
            LET gad_weeks == gads_by_author[k]
                quartiles == calculate_quartiles(daily_commit_counts(gad_weeks))
                rows == WeekRowsOf(boxes)
            IN  /\ boxes[Len(boxes)] = <<<<NL>>>>
                /\ Len(rows) = Len(gad_weeks)
                /\ \A w \in 1..Len(rows) :
                      /\ Len(rows[w]) = 8
                      /\ \A i \in 1..7 :
                            rows[w][i] = RenderGad(args.display_type, gad_weeks[w][i].commits,
                                                   quartiles)[1]
                      /\ rows[w][8] =
                            IF \E i \in 1..7 : gad_weeks[w][i].day.day = 1
                            THEN <<StrfMonth(gad_weeks[w][7].day)>>
                            ELSE <<[j \in 1..non_ansi_len(rows[w][1][1]) |-> SP]>>
                /\ \A d \in FirstDays(gad_weeks) :
                      Cardinality({w \in 1..Len(rows) : rows[w][8] = <<StrfMonth(d)>>}) = 1

\* the longest window ending in a week that starts on the first of October:
\* its last row is labelled, its first row ends in blanks
C12_Witness ==
    /\ Rendered
    /\ TODAY = Date(2023, 10, 1)
    /\ Len(time_period) = MaxRenderWeeks
    /\ args.display_type = "numeric"
    /\ \A k \in DOMAIN gads_by_author :
          /\ Len(WeekRowsOf(GadBoxes(k))) = MaxRenderWeeks
          /\ WeekRowsOf(GadBoxes(k))[MaxRenderWeeks][8] = <<StrfMonth(TODAY)>>
          /\ WeekRowsOf(GadBoxes(k))[1][8] = <<<<SP, SP>>>>

----------------------------------------------------------------------------
(* Several authors: the table *)

TableInit ==
    RunInit({Date(2024, 3, 14)}, TermWidths,
            Argvs({{1}}, Option(1..MaxTableWidth), {"block"}, {"vertical", "horizontal"}),
            Cfgs({0}, 1..MaxTableAuthors), 1, 1)

SpecTable == TableInit /\ [][MainNext]_vars

\* the rows handed to the table renderer
TableRows == stdout[Len(stdout)].rows

\* the name and the grid render_author_gads gives for the one author a
OwnCells(a) ==
    LET one == render_author_gads((a :> gads_by_author[a]), args.display_type, args.total,
                                  args.orientation)
    IN  [name |-> one.authors[1], grid |-> one.unboxed_gads[1]]

\* the places of the name rows where cell is found
PlacesOf(cell) ==
    {rc \in (1..Len(TableRows)) \X (1..MaxTableAuthors + 1) :
        /\ rc[1] % 2 = 1
        /\ rc[2] <= Len(TableRows[rc[1]])
        /\ TableRows[rc[1]][rc[2]] = cell}

\* C10: the table rows alternate a name row and a grid row of the same length,
\* each of at least one and at most w cells (w the given width, 1 for a single
\* author, the width of the first row when it is computed); every author's name
\* is in exactly one cell and the author's own grid is in the same column of
\* the row below; the table has no other cells.
C10_TableLayout ==
    pc = "done" =>
        LET k == Cardinality(DOMAIN gads_by_author)
            w == IF k <= 1 THEN 1
                 ELSE IF args.width # 0 THEN args.width
                 ELSE Len(TableRows[1])
        IN  /\ Len(TableRows) % 2 = 0
            /\ w >= 1
            /\ \A r \in 1..Len(TableRows) :
                  /\ Len(TableRows[r]) >= 1
                  /\ Len(TableRows[r]) <= w
                  /\ r % 2 = 1 => Len(TableRows[r + 1]) = Len(TableRows[r])
            /\ SumSeq([r \in 1..Len(TableRows) |-> Len(TableRows[r])]) = 2 * k
            /\ \A a \in DOMAIN gads_by_author : \A own \in {OwnCells(a)} :
                  /\ Cardinality(PlacesOf(own.name)) = 1
                  /\ \A rc \in PlacesOf(own.name) :
                        TableRows[rc[1] + 1][rc[2]] = own.grid

\* the most authors in rows of two: the last pair of rows has a single cell
C10_Witness ==
    /\ pc = "done"
    /\ Cardinality(DOMAIN gads_by_author) = MaxTableAuthors
    /\ args.width = 2
    /\ Len(TableRows) = 2 * ((MaxTableAuthors + 1) \div 2)
    /\ Len(TableRows[1]) = 2

----------------------------------------------------------------------------
(* last_n_weeks on its own: any reference date, any num_weeks *)

RefDates == {d \in [year : RefYears, month : 1..12, day : 1..31] :
                d.day <= DaysInMonth(d.year, d.month)}

EnvOff ==
    /\ TODAY = <<>>
    /\ MAX_WIDTH = 0
    /\ argv = <<>>
    /\ cfg = <<>>
    /\ dict_order = <<>>
    /\ git_log = <<>>

RunOff ==
    /\ pc = "off"
    /\ args = <<>>
    /\ repositories = <<>>
    /\ authors = <<>>
    /\ time_period = <<>>
    /\ fetched = <<>>
    /\ calls = <<>>
    /\ gads_by_author = <<>>
    /\ gads_by_date = <<>>
    /\ author_i = 0
    /\ repo_i = 0
    /\ rendered = <<>>
    /\ stdout = <<>>

CalInit ==
    /\ date \in RefDates
    /\ num_weeks \in NumWeeksInputs
    /\ weeks = <<>>
    /\ cal_pc = "call"
    /\ StatOff
    /\ CountOff
    /\ EnvOff
    /\ RunOff

CallLastNWeeks ==
    /\ cal_pc = "call"
    /\ weeks' = last_n_weeks(date, num_weeks)
    /\ cal_pc' = "returned"
    /\ UNCHANGED <<date, num_weeks>>
    /\ UNCHANGED <<statVars, countVars, envVars, runVars>>

CalNext == CallLastNWeeks

SpecCal == CalInit /\ [][CalNext]_vars

\* C1: for every reference date and every n >= 1, last_n_weeks returns exactly
\* n weeks of 7 dates, each starting on a Sunday, every date the day after the
\* one before it, and the last week holds the reference date.
C1_Window ==
    (cal_pc = "returned" /\ num_weeks >= 1) =>
        /\ Len(weeks) = num_weeks
        /\ \A w \in 1..Len(weeks) :
              /\ Len(weeks[w]) = 7
              /\ Weekday(weeks[w][1]) = SUNDAY
        /\ \A k \in 1..(7 * Len(weeks) - 1) :
              Flatten(weeks)[k + 1] = NextDay(Flatten(weeks)[k])
        /\ InList(date, weeks[Len(weeks)])

\* a window that needed two earlier months, one of them joined at a shared week
C1_Witness ==
    /\ cal_pc = "returned"
    /\ num_weeks = MaxWeeks
    /\ date = Date(2024, 3, 2)
    /\ Len(weeks) = MaxWeeks
    /\ weeks[1][1].year = 2024

\* C8 as claimed: a call with n <= 0 ends in an input error and returns no list
\* of weeks.
C8_Rejected ==
    (cal_pc # "call" /\ num_weeks <= 0) => cal_pc = "raised"

\* C8 as the code behaves: a call with n <= 0 is not rejected, it returns the
\* empty list of weeks.
C8_EmptyList ==
    (cal_pc # "call" /\ num_weeks <= 0) => (cal_pc = "returned" /\ weeks = <<>>)

C8_Witness ==
    /\ cal_pc = "returned"
    /\ num_weeks = -1
    /\ weeks = <<>>

----------------------------------------------------------------------------
(* calculate_quartiles on its own: any list of positive numbers *)

RECURSIVE SeqsUpTo(_, _)
SeqsUpTo(S, n) ==
    IF n = 0 THEN {<<>>}
    ELSE SeqsUpTo(S, n - 1) \cup {Append(q, x) : q \in {r \in SeqsUpTo(S, n - 1) : Len(r) = n - 1}, x \in S}

StatInit ==
    /\ list_of_numbers \in SeqsUpTo(1..MaxNumber, MaxLen)
    /\ quartile_triple = <<>>
    /\ stat_pc = "call"
    /\ CalOff
    /\ CountOff
    /\ EnvOff
    /\ RunOff

\* the call sorts its argument in place
CallCalculateQuartiles ==
    /\ stat_pc = "call"
    /\ quartile_triple' = calculate_quartiles(list_of_numbers)
    /\ list_of_numbers' = Sort(list_of_numbers)
    /\ stat_pc' = "returned"
    /\ UNCHANGED <<calVars, countVars, envVars, runVars>>

StatNext == CallCalculateQuartiles

SpecQuart == StatInit /\ [][StatNext]_vars

\* C3: calculate_quartiles returns (0,0,0) for the empty list and otherwise the
\* elements of the sorted list at the indexes len/4, len/2 and 3*len/4, each
\* rounded down.
C3_OrderStatistics ==
    stat_pc = "returned" =>
        LET n == Len(list_of_numbers)
        IN  quartile_triple = IF n = 0 THEN <<0, 0, 0>>
                        ELSE <<list_of_numbers[(n \div 4) + 1],
                               list_of_numbers[(n \div 2) + 1],
                               list_of_numbers[((3 * n) \div 4) + 1]>>

\* C13: for a list of nonzero daily totals the triple calculate_quartiles
\* returns is ordered, Q1 <= Q2 <= Q3, and of two totals of the list the
\* larger never gets a lower intensity level than the smaller.
C13_OrderedQuartiles ==
    (stat_pc = "returned" /\ \A i \in 1..Len(list_of_numbers) : list_of_numbers[i] # 0) =>
        /\ quartile_triple[1] <= quartile_triple[2]
        /\ quartile_triple[2] <= quartile_triple[3]
        /\ \A i, j \in 1..Len(list_of_numbers) :
              list_of_numbers[i] <= list_of_numbers[j] =>
                  ColorIndex(list_of_numbers[i], quartile_triple)
                      <= ColorIndex(list_of_numbers[j], quartile_triple)

----------------------------------------------------------------------------
(* count_commits_for on its own: any answer of git log *)

\* the seconds of a day
SecondsPerDay == 86400

\* the day of timestamp 0
EPOCH == Date(1970, 1, 1)

RECURSIVE AddDays(_, _)
AddDays(d, n) == IF n = 0 THEN d ELSE AddDays(NextDay(d), n - 1)

\* datetime.date.fromtimestamp(int(x)), the local time being UTC
FromTimestamp(stamp) == AddDays(EPOCH, stamp \div SecondsPerDay)

\* the timestamps git log may list: a morning and an evening of each day
Stamps == UNION {{k * SecondsPerDay + 3600, k * SecondsPerDay + 72000} : k \in 0..(StampDays - 1)}

\* groupby(commit_dates, id): the places where a run of equal dates starts
RunStarts(commit_dates) ==
    {i \in 1..Len(commit_dates) : i = 1 \/ commit_dates[i - 1] # commit_dates[i]}

\* len(list(date_group[1])) of the run that starts at place i
RunLen(commit_dates, i) ==
    CHOOSE n \in 1..(Len(commit_dates) - i + 1) :
        /\ \A j \in i..(i + n - 1) : commit_dates[j] = commit_dates[i]
        /\ (i + n > Len(commit_dates) \/ commit_dates[i + n] # commit_dates[i])

\* count_commits_for(repository_dir, num_weeks, author) on the timestamps
\* git log listed (none: the output was the empty string): every run of equal
\* dates assigns its length to its date, a later run over an earlier one
count_commits_for(stamps) ==
    LET commit_dates == [i \in 1..Len(stamps) |-> FromTimestamp(stamps[i])]
        last_run(d) == CHOOSE i \in RunStarts(commit_dates) :
                          /\ commit_dates[i] = d
                          /\ \A j \in RunStarts(commit_dates) :
                                commit_dates[j] = d => j <= i
    IN  [d \in Range(commit_dates) |-> RunLen(commit_dates, last_run(d))]

CountInit ==
    /\ commit_stamps \in SeqsUpTo(Stamps, MaxStamps)
    /\ commits_counted_by_date = <<>>
    /\ count_pc = "call"
    /\ CalOff
    /\ StatOff
    /\ EnvOff
    /\ RunOff

CallCountCommitsFor ==
    /\ count_pc = "call"
    /\ commits_counted_by_date' = count_commits_for(commit_stamps)
    /\ count_pc' = "returned"
    /\ UNCHANGED commit_stamps
    /\ UNCHANGED <<calVars, statVars, envVars, runVars>>

CountNext == CallCountCommitsFor

SpecCount == CountInit /\ [][CountNext]_vars

\* C11: whatever the order of the timestamps git log lists, the mapping
\* count_commits_for returns has exactly the dates with commits as its keys
\* and, for each of them, the number of listed commits on that date.
C11_TotalPerDate ==
    count_pc = "returned" =>
        LET commit_dates == [i \in 1..Len(commit_stamps) |-> FromTimestamp(commit_stamps[i])]
        IN  /\ DOMAIN commits_counted_by_date = Range(commit_dates)
            /\ \A d \in Range(commit_dates) :
                  commits_counted_by_date[d] =
                      Cardinality({i \in 1..Len(commit_dates) : commit_dates[i] = d})

====
